---- MODULE Spec2Model ----
(***************************************************************************)
(* Parallel item processor (fan-out / fan-in over the graph engine's Send  *)
(* primitive): parallel_processor_subagent.py and the orchestra variant    *)
(* parallel_orchestra_with_mcp.py; and the retry wrapper around a compiled *)
(* graph, AutoRetryAgent of agents/mcp_agent_grok_fast_with_retry.py.      *)
(*                                                                         *)
(* Text is modelled as a sequence of tokens.  A token is one character     *)
(* (" ", "\n", ",", ".", a digit, the letter "x") or an atomic run of      *)
(* characters (a keyword, or "L", a run of 100 letters).                   *)
(***************************************************************************)
EXTENDS Integers, Sequences, FiniteSets, TLC

\* ------------------------------------------------------------------ bounds
MaxLen == 3
MaxItems == 3
MaxTopics == 3
MaxAttempts == 3
MaxCallers == 3

\* ------------------------------------------------------------- text model
Digits == <<"0", "1", "2", "3", "4", "5", "6", "7", "8", "9">>

Alphabet == {"0", "3", ".", " ", "\n", ",", "x", "songs", "research", "screenshot", "L"}

None == "None"

IsDigit(t) == \E k \in 1..10 : Digits[k] = t

IsSpace(t) == t \in {" ", "\n"}

DigitVal(t) == (CHOOSE k \in 1..10 : Digits[k] = t) - 1

CharLen(t) ==
  CASE t = "songs" -> 5
    [] t = "research" -> 8
    [] t = "screenshot" -> 10
    [] t = "L" -> 100
    [] OTHER -> 1

RECURSIVE StrLen(_)
StrLen(s) == IF s = <<>> THEN 0 ELSE CharLen(Head(s)) + StrLen(Tail(s))

RECURSIVE IntOfStr(_)
IntOfStr(s) ==
  IF s = <<>> THEN 0
  ELSE 10 * IntOfStr(SubSeq(s, 1, Len(s) - 1)) + DigitVal(s[Len(s)])

RECURSIVE StrOfNat(_)
StrOfNat(n) ==
  IF n < 10 THEN <<Digits[n + 1]>>
  ELSE StrOfNat(n \div 10) \o <<Digits[(n % 10) + 1]>>

Contains(s, t) == \E k \in 1..Len(s) : s[k] = t

RECURSIVE LStrip(_)
LStrip(s) == IF s # <<>> /\ IsSpace(Head(s)) THEN LStrip(Tail(s)) ELSE s

RECURSIVE RStrip(_)
RStrip(s) ==
  IF s # <<>> /\ IsSpace(s[Len(s)]) THEN RStrip(SubSeq(s, 1, Len(s) - 1)) ELSE s

Strip(s) == RStrip(LStrip(s))

\* first index >= p whose token does not satisfy the run's class (Len+1 at end)
RECURSIVE SpaceRunEnd(_, _)
SpaceRunEnd(s, p) ==
  IF p <= Len(s) /\ IsSpace(s[p]) THEN SpaceRunEnd(s, p + 1) ELSE p

RECURSIVE DigitRunEnd(_, _)
DigitRunEnd(s, p) ==
  IF p <= Len(s) /\ IsDigit(s[p]) THEN DigitRunEnd(s, p + 1) ELSE p

RECURSIVE LineEnd(_, _)
LineEnd(s, p) ==
  IF p <= Len(s) /\ s[p] # "\n" THEN LineEnd(s, p + 1) ELSE p

RECURSIVE Split(_, _)
Split(s, sep) ==
  IF ~Contains(s, sep) THEN <<s>>
  ELSE LET k == CHOOSE j \in 1..Len(s) : s[j] = sep /\ \A i \in 1..(j - 1) : s[i] # sep
       IN <<SubSeq(s, 1, k - 1)>> \o Split(SubSeq(s, k + 1, Len(s)), sep)

\* ------------------------------------------------- extract_items_from_request
PartLimit == 100

TaskTypeOf(content) ==
  IF Contains(content, "screenshot") THEN "screenshot"
  ELSE IF Contains(content, "navigate") THEN "navigate"
  ELSE IF Contains(content, "research") \/ Contains(content, "perplexity") THEN "research"
  ELSE "generic"

IsLineStart(c, s) == s = 1 \/ c[s - 1] = "\n"

\* ^\s*\d+[\.\)] matched from line start s: index after the punctuation, 0 if no match
NumberedHead(c, s) ==
  LET d == SpaceRunEnd(c, s)
      de == DigitRunEnd(c, d)
  IN IF de > d /\ de <= Len(c) /\ c[de] = "." THEN de + 1 ELSE 0

\* \s*(.+?)$ matched from p: index of the first token of the group, 0 if no match.
\* The greedy \s* gives whitespace back until the group can start on a
\* token that is not a newline.
NumberedGroupStart(c, p) ==
  LET r == SpaceRunEnd(c, p)
      cand == {q \in p..Len(c) : c[q] # "\n"}
  IN IF r <= Len(c) THEN r
     ELSE IF cand = {} THEN 0
     ELSE CHOOSE q \in cand : \A q2 \in cand : q2 <= q

RECURSIVE NumberedMatches(_, _)
NumberedMatches(c, pos) ==
  IF pos > Len(c) THEN <<>>
  ELSE LET p == IF IsLineStart(c, pos) THEN NumberedHead(c, pos) ELSE 0
           q == IF p = 0 THEN 0 ELSE NumberedGroupStart(c, p)
       IN IF q = 0 THEN NumberedMatches(c, pos + 1)
          ELSE <<SubSeq(c, q, LineEnd(c, q) - 1)>> \o NumberedMatches(c, LineEnd(c, q))

IsNoun(t) == t \in {"song", "songs", "article", "articles", "item", "items",
                    "task", "tasks", "topic", "topics", "question", "questions",
                    "product", "products", "website", "websites", "page", "pages",
                    "document", "documents"}

\* (\d+)\s+(noun) matched with the digits starting at p
CountMatchAt(c, p) ==
  LET de == DigitRunEnd(c, p)
      se == SpaceRunEnd(c, de)
  IN de > p /\ se > de /\ se <= Len(c) /\ IsNoun(c[se])

\* re.search: the leftmost match, as <<count, item_type>>; <<>> if none
CountMatch(c) ==
  LET starts == {p \in 1..Len(c) : CountMatchAt(c, p)}
  IN IF starts = {} THEN <<>>
     ELSE LET p == CHOOSE p1 \in starts : \A p2 \in starts : p1 <= p2
              de == DigitRunEnd(c, p)
          IN <<IntOfStr(SubSeq(c, p, de - 1)), c[SpaceRunEnd(c, de)]>>

NumberedItems(content, task_type) ==
  LET m == NumberedMatches(content, 1)
  IN [i \in 1..Len(m) |-> [id |-> i, description |-> Strip(m[i]), task_type |-> task_type]]

CountItems(content, task_type) ==
  LET cm == CountMatch(content)
  IN IF cm = <<>> THEN <<>>
     ELSE [i \in 1..cm[1] |->
             [id |-> i, description |-> <<cm[2], " ">> \o StrOfNat(i),
              content |-> content, task_type |-> task_type]]

CommaItems(content, task_type) ==
  LET raw == Split(content, ",")
      parts == [k \in 1..Len(raw) |-> Strip(raw[k])]
  IN IF Contains(content, ",") /\ Len(parts) >= 2
        /\ \A k \in 1..Len(parts) : StrLen(parts[k]) < PartLimit
     THEN [i \in 1..Len(parts) |-> [id |-> i, description |-> parts[i], task_type |-> task_type]]
     ELSE <<>>

\* variant: no fallback item
FallbackItems_none(content, task_type) == <<>>

FallbackItems(content, task_type) ==
  <<[id |-> 1, description |-> content, content |-> content, task_type |-> task_type]>>

ItemsOf(content) ==
  LET tt == TaskTypeOf(content)
      i1 == NumberedItems(content, tt)
      i2 == IF i1 = <<>> THEN CountItems(content, tt) ELSE i1
      i3 == IF i2 = <<>> THEN CommaItems(content, tt) ELSE i2
  IN IF i3 = <<>> THEN FallbackItems(content, tt) ELSE i3

\* the partial state update returned by the node
extract_items_from_request(msgs) ==
  IF msgs = <<>>
  THEN [items_to_process |-> <<>>, errors |-> << <<"No messages provided">> >>]
  ELSE [items_to_process |-> ItemsOf(msgs[Len(msgs)].content), errors |-> <<>>]

\* ------------------------------------------------------------ program state
VARIABLES
  graph,             \* which compiled graph this invocation runs
  step,              \* the engine's position in the graph
  raisedBy,          \* node whose exception ended the invocation, or None
  messages,          \* ParallelProcessorState.messages
  chrome_tools,      \* ParallelProcessorState.chrome_tools
  items_to_process,  \* ParallelProcessorState.items_to_process
  results,           \* ParallelProcessorState.results   (operator.add)
  original_query,    \* OrchestraState.original_query
  topics,            \* OrchestraState.topics
  search_results,    \* OrchestraState.search_results    (operator.add)
  web_results,       \* OrchestraState.web_results       (operator.add)
  _perplexity_tools, \* module global of parallel_orchestra_with_mcp
  _chrome_tools,     \* module global of parallel_orchestra_with_mcp
  clients,           \* number of MultiServerMCPClient objects constructed, per getter
  tasks,             \* the Send objects the router returned
  wstate,            \* per submitted task: position of its worker
  errors,            \* .errors of either state           (operator.add)
  final_report,      \* .final_report of either state, a sequence of lines
  max_attempts,      \* RetryPolicy.max_attempts of the AutoRetryAgent
  initial_input,     \* execute_with_retry's argument
  attempt,           \* execute_with_retry's local
  stats,             \* execute_with_retry's local (total_time is not modelled)
  last_result,       \* execute_with_retry's local
  delay,             \* duration of the sleep execute_with_retry awaits
  ainvoke_calls,     \* the inputs graph.ainvoke was called with, in order
  returned,          \* what execute_with_retry returned; <<>> before it returns
  mcp_module,        \* which module's get_mcp_tools runs
  _initialization_lock,        \* the caller holding the asyncio.Lock, 0: free
  _initialization_in_progress, \* module global (glm modules)
  _mcp_tools,        \* the module's tool cache (_bright_data_tools, _chrome_tools, ...)
  mcp_clients,       \* the callers that constructed a MultiServerMCPClient, in order
  callers            \* per caller of get_mcp_tools: its position and what it returned

\* fields and globals of the parallel processor subagent
pvars == <<messages, chrome_tools, items_to_process, results>>

\* fields and globals of the orchestra
ovars == <<original_query, topics, search_results, web_results,
           _perplexity_tools, _chrome_tools, clients>>

\* the AutoRetryAgent and the locals of its execute_with_retry
rvars == <<max_attempts, initial_input, attempt, stats, last_result, delay,
           ainvoke_calls, returned>>

\* the globals of a module with get_mcp_tools, and the callers of the function
mvars == <<mcp_module, _initialization_lock, _initialization_in_progress,
           _mcp_tools, mcp_clients, callers>>

vars == <<graph, step, raisedBy, messages, chrome_tools, items_to_process, results,
          original_query, topics, search_results, web_results,
          _perplexity_tools, _chrome_tools, clients,
          tasks, wstate, errors, final_report,
          max_attempts, initial_input, attempt, stats, last_result, delay,
          ainvoke_calls, returned,
          mcp_module, _initialization_lock, _initialization_in_progress,
          _mcp_tools, mcp_clients, callers>>

RECURSIVE TokenStrings(_)
TokenStrings(n) ==
  IF n = 0 THEN {<<>>}
  ELSE LET S == TokenStrings(n - 1)
       IN S \cup {Append(s, a) : s \in {x \in S : Len(x) = n - 1}, a \in Alphabet}

\* the instructions an invocation is started with
Contents == {c \in TokenStrings(MaxLen) : Len(ItemsOf(c)) <= MaxItems}

\* variant: the field has no reducer, a non-empty update replaces the value
Reduce_overwrite(old, update) == IF update = <<>> THEN old ELSE update

\* operator.add, the reducer of the list-valued fields
Reduce(old, update) == old \o update

\* the first n characters of s; "~" is the part left of a token that is cut
RECURSIVE TakeChars(_, _)
TakeChars(s, n) ==
  IF s = <<>> \/ n <= 0 THEN <<>>
  ELSE IF CharLen(Head(s)) <= n
       THEN <<Head(s)>> \o TakeChars(Tail(s), n - CharLen(Head(s)))
       ELSE <<"~">>

\* format spec ":2d"
Pad2(n) == IF n < 10 THEN <<" ">> \o StrOfNat(n) ELSE StrOfNat(n)

\* A tool collection is optional: NoTools is Python's None, Tools(m) the
\* collection m (a set of tool names)
NoTools == <<>>

Tools(m) == <<m>>

NamesOf(tools) == IF tools = NoTools THEN {} ELSE tools[1]

Truthy(tools) == NamesOf(tools) # {}

ChromeToolNames == {"mcp__chrome-dev-testing__new_page", "mcp__chrome-dev-testing__take_screenshot"}

PerplexityToolNames == {"perplexity_search"}

\* what a failing tool call raises
ToolFailures == {"TimeoutError", "ToolException"}

\* ------------------------------------------------- initialize_chrome_tools
NeedsChrome(content) ==
  Contains(content, "screenshot") \/ Contains(content, "navigate") \/ Contains(content, "chrome")

NeedsPerplexity(content) ==
  Contains(content, "research") \/ Contains(content, "perplexity") \/ Contains(content, "search")

initialize_chrome_tools ==
  /\ graph = "processor"
  /\ step = "initialize_chrome_tools"
  /\ IF messages = <<>>
     THEN chrome_tools' = NoTools /\ step' = "extract_items" /\ raisedBy' = raisedBy
     ELSE LET content == messages[Len(messages)].content
              served == (IF NeedsChrome(content) THEN ChromeToolNames ELSE {})
                        \cup (IF NeedsPerplexity(content) THEN PerplexityToolNames ELSE {})
          IN IF NeedsChrome(content) \/ NeedsPerplexity(content)
             THEN \/ \E tool_map \in SUBSET served :
                       chrome_tools' = Tools(tool_map) /\ step' = "extract_items" /\ raisedBy' = raisedBy
                  \/ \* mcp_client.get_tools() raises: nothing in the node catches it
                     chrome_tools' = chrome_tools /\ step' = "raised"
                     /\ raisedBy' = "initialize_chrome_tools"
             ELSE chrome_tools' = NoTools /\ step' = "extract_items" /\ raisedBy' = raisedBy
  /\ UNCHANGED <<graph, messages, items_to_process, results, tasks, wstate, errors, final_report>>
  /\ UNCHANGED ovars
  /\ UNCHANGED rvars
  /\ UNCHANGED mvars

\* ------------------------------------------------------------ extract_items
\* variant: what the node extracts depends on the tool map in the state
extract_items_by_tools ==
  /\ graph = "processor"
  /\ step = "extract_items"
  /\ LET update == extract_items_from_request(messages)
     IN /\ items_to_process' = IF Truthy(chrome_tools)
                                THEN SubSeq(update.items_to_process, 1, 1)
                                ELSE update.items_to_process
        /\ errors' = Reduce(errors, update.errors)
  /\ step' = "route"
  /\ UNCHANGED <<graph, raisedBy, messages, chrome_tools, results, tasks, wstate, final_report>>
  /\ UNCHANGED ovars
  /\ UNCHANGED rvars
  /\ UNCHANGED mvars

extract_items ==
  /\ graph = "processor"
  /\ step = "extract_items"
  /\ LET update == extract_items_from_request(messages)
     IN /\ items_to_process' = update.items_to_process
        /\ errors' = Reduce(errors, update.errors)
  /\ step' = "route"
  /\ UNCHANGED <<graph, raisedBy, messages, chrome_tools, results, tasks, wstate, final_report>>
  /\ UNCHANGED ovars
  /\ UNCHANGED rvars
  /\ UNCHANGED mvars

\* ------------------------------------------------ route_to_parallel_workers
\* variant: the comprehension stops one item early
route_to_parallel_workers_drop_last(items, tools) ==
  [k \in 1..(Len(items) - 1) |->
     [node |-> "process_single_item",
      arg |-> [item_id |-> items[k].id,
               item_description |-> items[k].description,
               item_content |-> IF "content" \in DOMAIN items[k]
                                THEN items[k].content ELSE items[k].description,
               task_type |-> items[k].task_type,
               chrome_tools |-> tools]]]

route_to_parallel_workers(items, tools) ==
  [k \in 1..Len(items) |->
     [node |-> "process_single_item",
      arg |-> [item_id |-> items[k].id,
               item_description |-> items[k].description,
               item_content |-> IF "content" \in DOMAIN items[k]
                                THEN items[k].content ELSE items[k].description,
               task_type |-> items[k].task_type,
               chrome_tools |-> tools]]]

\* the conditional edge out of extract_items: every Send starts a worker in
\* the next superstep; with no Send no node is triggered and the run ends
\* variant: the router hands no tool map to the workers
route_own_tools ==
  /\ graph = "processor"
  /\ step = "route"
  /\ tasks' = route_to_parallel_workers(items_to_process, NoTools)
  /\ wstate' = [k \in 1..Len(tasks') |-> "pending"]
  /\ step' = IF tasks' = <<>> THEN "END" ELSE "workers"
  /\ UNCHANGED <<graph, raisedBy, errors, final_report>>
  /\ UNCHANGED pvars
  /\ UNCHANGED ovars
  /\ UNCHANGED rvars
  /\ UNCHANGED mvars

route ==
  /\ graph = "processor"
  /\ step = "route"
  /\ tasks' = route_to_parallel_workers(items_to_process, chrome_tools)
  /\ wstate' = [k \in 1..Len(tasks') |-> "pending"]
  /\ step' = IF tasks' = <<>> THEN "END" ELSE "workers"
  /\ UNCHANGED <<graph, raisedBy, errors, final_report>>
  /\ UNCHANGED pvars
  /\ UNCHANGED ovars
  /\ UNCHANGED rvars
  /\ UNCHANGED mvars

\* ------------------------------------------------------ process_single_item
\* the tool calls the worker awaits for its argument
ToolCalls(arg) ==
  IF arg.task_type = "screenshot" /\ Truthy(arg.chrome_tools)
  THEN NamesOf(arg.chrome_tools) \cap ChromeToolNames
  ELSE IF arg.task_type = "research" /\ Truthy(arg.chrome_tools)
       THEN NamesOf(arg.chrome_tools) \cap PerplexityToolNames
       ELSE {}

ItemDetails(arg) ==
  IF arg.task_type = "screenshot" /\ Truthy(arg.chrome_tools)
  THEN <<"Successfully captured screenshot">>
  ELSE IF arg.task_type = "research" /\ Truthy(arg.chrome_tools)
       THEN IF ToolCalls(arg) # {}
            THEN <<"Successfully researched using Perplexity">>
            ELSE <<"Fallback: Perplexity tool not available">>
       ELSE <<"Generic processing for item ">> \o StrOfNat(arg.item_id)

ItemResult(arg) ==
  [item_id |-> arg.item_id,
   description |-> arg.item_description,
   status |-> "success",
   details |-> ItemDetails(arg)]

\* variant: the message leaves the item id out
ItemError_no_id(arg, e) ==
  <<"Item ", " (">> \o TakeChars(arg.item_description, 30) \o <<"...): ", e>>

ItemError(arg, e) ==
  <<"Item ">> \o StrOfNat(arg.item_id) \o <<" (">>
     \o TakeChars(arg.item_description, 30) \o <<"...): ", e>>

\* variant: the except block records nothing
process_single_item_swallow(arg, e) ==
  IF e = None
  THEN [results |-> <<ItemResult(arg)>>, errors |-> <<>>]
  ELSE [results |-> <<>>, errors |-> <<>>]

\* the partial update the worker returns: the try block's result, or the
\* except block's error when a tool call raised e (e = None: nothing raised)
process_single_item(arg, e) ==
  IF e = None
  THEN [results |-> <<ItemResult(arg)>>, errors |-> <<>>]
  ELSE [results |-> <<>>, errors |-> <<ItemError(arg, e)>>]

\* variant: a failed item is started again
WorkerStart_rerun(i) ==
  /\ graph = "processor"
  /\ step = "workers"
  /\ i \in 1..Len(tasks)
  /\ wstate[i] \in {"pending", "failed"}
  /\ wstate' = [wstate EXCEPT ![i] = "running"]
  /\ UNCHANGED <<graph, step, raisedBy, tasks, errors, final_report>>
  /\ UNCHANGED pvars
  /\ UNCHANGED ovars
  /\ UNCHANGED rvars
  /\ UNCHANGED mvars

WorkerStart(i) ==
  /\ graph = "processor"
  /\ step = "workers"
  /\ i \in 1..Len(tasks)
  /\ wstate[i] = "pending"
  /\ wstate' = [wstate EXCEPT ![i] = "running"]
  /\ UNCHANGED <<graph, step, raisedBy, tasks, errors, final_report>>
  /\ UNCHANGED pvars
  /\ UNCHANGED ovars
  /\ UNCHANGED rvars
  /\ UNCHANGED mvars

WorkerReturn(i) ==
  /\ graph = "processor"
  /\ step = "workers"
  /\ i \in 1..Len(tasks)
  /\ wstate[i] = "running"
  /\ \E e \in {None} \cup (IF ToolCalls(tasks[i].arg) # {} THEN ToolFailures ELSE {}) :
       LET update == process_single_item(tasks[i].arg, e)
       IN /\ results' = Reduce(results, update.results)
          /\ errors' = Reduce(errors, update.errors)
          /\ wstate' = [wstate EXCEPT ![i] = IF e = None THEN "succeeded" ELSE "failed"]
  /\ UNCHANGED <<graph, step, raisedBy, messages, chrome_tools, items_to_process,
                 tasks, final_report>>
  /\ UNCHANGED ovars
  /\ UNCHANGED rvars
  /\ UNCHANGED mvars

\* -------------------------------------------------------- aggregate_results
\* a line of n copies of the character ch
Rule(ch, n) == <<"rule", ch>> \o StrOfNat(n)

RECURSIVE ResultLines(_)
ResultLines(rs) ==
  IF rs = <<>> THEN <<>>
  ELSE LET r == Head(rs)
       IN << <<"[">> \o Pad2(r.item_id) \o <<"] ">> \o r.description,
             <<"     Status: ", r.status>> >>
          \o (IF r.details # <<>> THEN << <<"     Details: ">> \o r.details >> ELSE <<>>)
          \o << <<>> >>
          \o ResultLines(Tail(rs))

ErrorLines(es) == [k \in 1..Len(es) |-> <<"  - ">> \o es[k]]

aggregate_results(rs, es) ==
  << <<"Parallel Processing Report">>,
     Rule("=", 60),
     <<"Total items processed: ">> \o StrOfNat(Len(rs)),
     <<"Successful: ">> \o StrOfNat(Len(rs)),
     <<"Failed: ">> \o StrOfNat(Len(es)),
     <<>> >>
  \o (IF rs # <<>> THEN << <<"Results:">>, Rule("-", 60) >> \o ResultLines(rs) ELSE <<>>)
  \o (IF es # <<>> THEN << <<"Errors:">>, Rule("-", 60) >> \o ErrorLines(es) \o << <<>> >> ELSE <<>>)
  \o << Rule("=", 60),
        <<"Processing complete. ">> \o StrOfNat(Len(rs)) \o <<" items processed successfully.">> >>

\* variant: the edge fires as soon as one worker has returned
AllReturned_any == \E k \in 1..Len(tasks) : wstate[k] \in {"succeeded", "failed"}

AllReturned == \A k \in 1..Len(tasks) : wstate[k] \in {"succeeded", "failed"}

\* the edge process_single_item -> aggregate_results fires in the superstep
\* after the one that ran the workers, i.e. when all of them have returned
aggregate ==
  /\ graph = "processor"
  /\ step = "workers"
  /\ AllReturned
  /\ final_report' = aggregate_results(results, errors)
  /\ messages' = <<[role |-> "ai", content |-> final_report']>>
  /\ step' = "END"
  /\ UNCHANGED <<graph, raisedBy, chrome_tools, items_to_process, results, tasks, wstate, errors>>
  /\ UNCHANGED ovars
  /\ UNCHANGED rvars
  /\ UNCHANGED mvars

\* =================================================== parallel_orchestra_with_mcp
\* ---------------------------------------------------- intelligent_decompose
\* the code generates topics 1..10; the model generates 1..MaxTopics
intelligent_decompose(query) ==
  [i \in 1..MaxTopics |->
     [id |-> i,
      topic |-> <<"Research topic ">> \o StrOfNat(i) \o <<" from: ">> \o query,
      type |-> IF i % 2 = 0 THEN "search" ELSE "web"]]

decompose ==
  /\ graph = "orchestra"
  /\ step = "intelligent_decompose"
  /\ \/ /\ topics' = intelligent_decompose(original_query)
        /\ step' = "route"
        /\ raisedBy' = raisedBy
     \/ \* model.ainvoke raises: nothing in the node catches it
        /\ topics' = topics
        /\ step' = "raised"
        /\ raisedBy' = "intelligent_decompose"
  /\ UNCHANGED <<graph, original_query, search_results, web_results,
                 _perplexity_tools, _chrome_tools, clients,
                 tasks, wstate, errors, final_report>>
  /\ UNCHANGED pvars
  /\ UNCHANGED rvars
  /\ UNCHANGED mvars

\* ----------------------------------------------- route_to_specialized_agents
\* variant: only the "search" topics are sent
route_to_specialized_agents_search_only(ts) ==
  LET sel == SelectSeq(ts, LAMBDA t : t.type = "search")
  IN [k \in 1..Len(sel) |-> [node |-> "perplexity_research_agent", arg |-> sel[k]]]

route_to_specialized_agents(ts) ==
  [k \in 1..Len(ts) |->
     [node |-> IF ts[k].type = "search" THEN "perplexity_research_agent"
               ELSE "chrome_web_agent",
      arg |-> ts[k]]]

route_orchestra ==
  /\ graph = "orchestra"
  /\ step = "route"
  /\ tasks' = route_to_specialized_agents(topics)
  /\ wstate' = [k \in 1..Len(tasks') |-> "pending"]
  /\ step' = IF tasks' = <<>> THEN "END" ELSE "workers"
  /\ UNCHANGED <<graph, raisedBy, errors, final_report>>
  /\ UNCHANGED pvars
  /\ UNCHANGED ovars
  /\ UNCHANGED rvars
  /\ UNCHANGED mvars

\* ------------------------------------ get_perplexity_tools, get_chrome_tools
\* The getter of the tools a node uses; a getter runs up to its await:
\*   cached tools  -> returns them at once
\*   no tools yet  -> constructs a client and suspends in client.get_tools()
GetterOf(node) == IF node = "perplexity_research_agent" THEN "perplexity" ELSE "chrome"

CachedTools(node) ==
  IF node = "perplexity_research_agent" THEN _perplexity_tools ELSE _chrome_tools

\* tool lists a server may return
ServedTools(node) ==
  IF node = "perplexity_research_agent" THEN SUBSET {"perplexity_search"}
  ELSE SUBSET {"navigate_page", "take_snapshot"}

\* next(...) over the tool list found the tool(s) the agent calls
HasAgentTools(node, tools) ==
  IF node = "perplexity_research_agent" THEN "perplexity_search" \in tools
  ELSE "navigate_page" \in tools /\ "take_snapshot" \in tools

\* ----------------------------- perplexity_research_agent, chrome_web_agent
AgentResult(node, arg, real) ==
  [topic_id |-> arg.id,
   topic |-> arg.topic,
   result |-> IF real THEN <<"tool output">>
              ELSE IF node = "perplexity_research_agent"
                   THEN <<"[Simulated Perplexity research for: ">> \o arg.topic \o <<"]">>
                   ELSE <<"[Simulated Chrome check for: ">> \o arg.topic \o <<"]">>,
   source |-> GetterOf(node),
   success |-> TRUE]

AgentError(node, arg, e) ==
  <<IF node = "perplexity_research_agent" THEN "Perplexity agent " ELSE "Chrome agent ">>
     \o StrOfNat(arg.id) \o <<" failed: ", e>>

\* the partial update an agent returns; real: a tool produced the result;
\* e: what the getter or a tool call raised (None: nothing raised)
agent_update(node, arg, real, e) ==
  [search_results |-> IF e = None /\ node = "perplexity_research_agent"
                      THEN <<AgentResult(node, arg, real)>> ELSE <<>>,
   web_results |-> IF e = None /\ node = "chrome_web_agent"
                   THEN <<AgentResult(node, arg, real)>> ELSE <<>>,
   errors |-> IF e = None THEN <<>> ELSE <<AgentError(node, arg, e)>>]

Merge(i, update, st) ==
  /\ search_results' = Reduce(search_results, update.search_results)
  /\ web_results' = Reduce(web_results, update.web_results)
  /\ errors' = Reduce(errors, update.errors)
  /\ wstate' = [wstate EXCEPT ![i] = st]

\* the agent runs from its start to its first await
AgentStart(i) ==
  /\ graph = "orchestra"
  /\ step = "workers"
  /\ i \in 1..Len(tasks)
  /\ wstate[i] = "pending"
  /\ LET node == tasks[i].node
         cached == CachedTools(node)
     IN IF cached = NoTools
        THEN \* construct the client, suspend in get_tools()
             /\ clients' = [clients EXCEPT ![GetterOf(node)] = @ + 1]
             /\ wstate' = [wstate EXCEPT ![i] = "loading"]
             /\ UNCHANGED <<search_results, web_results, errors>>
        ELSE /\ clients' = clients
             /\ IF HasAgentTools(node, NamesOf(cached))
                THEN /\ wstate' = [wstate EXCEPT ![i] = "invoking"]
                     /\ UNCHANGED <<search_results, web_results, errors>>
                ELSE Merge(i, agent_update(node, tasks[i].arg, FALSE, None), "succeeded")
  /\ UNCHANGED <<graph, step, raisedBy, original_query, topics,
                 _perplexity_tools, _chrome_tools, tasks, final_report>>
  /\ UNCHANGED pvars
  /\ UNCHANGED rvars
  /\ UNCHANGED mvars

\* client.get_tools() returns or raises; the agent runs on to its next await
AgentLoaded(i) ==
  /\ graph = "orchestra"
  /\ step = "workers"
  /\ i \in 1..Len(tasks)
  /\ wstate[i] = "loading"
  /\ LET node == tasks[i].node
     IN \/ \E tools \in ServedTools(node) :
             /\ IF node = "perplexity_research_agent"
                THEN _perplexity_tools' = Tools(tools) /\ _chrome_tools' = _chrome_tools
                ELSE _chrome_tools' = Tools(tools) /\ _perplexity_tools' = _perplexity_tools
             /\ IF HasAgentTools(node, tools)
                THEN /\ wstate' = [wstate EXCEPT ![i] = "invoking"]
                     /\ UNCHANGED <<search_results, web_results, errors>>
                ELSE Merge(i, agent_update(node, tasks[i].arg, FALSE, None), "succeeded")
        \/ \E e \in ToolFailures :
             /\ UNCHANGED <<_perplexity_tools, _chrome_tools>>
             /\ Merge(i, agent_update(node, tasks[i].arg, FALSE, e), "failed")
  /\ UNCHANGED <<graph, step, raisedBy, original_query, topics, clients, tasks, final_report>>
  /\ UNCHANGED pvars
  /\ UNCHANGED rvars
  /\ UNCHANGED mvars

\* the tool call(s) of the agent return or raise (navigate and snapshot of
\* the chrome agent are taken together: no state is shared between them)
AgentInvoked(i) ==
  /\ graph = "orchestra"
  /\ step = "workers"
  /\ i \in 1..Len(tasks)
  /\ wstate[i] = "invoking"
  /\ \E e \in {None} \cup ToolFailures :
       Merge(i, agent_update(tasks[i].node, tasks[i].arg, TRUE, e),
             IF e = None THEN "succeeded" ELSE "failed")
  /\ UNCHANGED <<graph, step, raisedBy, original_query, topics,
                 _perplexity_tools, _chrome_tools, clients, tasks, final_report>>
  /\ UNCHANGED pvars
  /\ UNCHANGED rvars
  /\ UNCHANGED mvars

\* ---------------------------------------------- aggregate_orchestra_results
RECURSIVE TopicLines(_)
TopicLines(rs) ==
  IF rs = <<>> THEN <<>>
  ELSE LET r == Head(rs)
       IN << <<"  [">> \o StrOfNat(r.topic_id) \o <<"] ">> \o r.topic,
             <<"      Result: ">> \o TakeChars(r.result, 200) \o <<"...">>,
             <<>> >>
          \o TopicLines(Tail(rs))

aggregate_orchestra_results(srs, wrs, es) ==
  << Rule("=", 70),
     <<"ORCHESTRA RESEARCH REPORT">>,
     Rule("=", 70),
     <<"Total search results: ">> \o StrOfNat(Len(srs)),
     <<"Total web results: ">> \o StrOfNat(Len(wrs)),
     <<"Errors: ">> \o StrOfNat(Len(es)),
     <<>>,
     <<"SEARCH RESULTS (Perplexity):">>,
     Rule("-", 70) >>
  \o TopicLines(srs)
  \o << <<>>, <<"WEB RESULTS (Chrome):">>, Rule("-", 70) >>
  \o TopicLines(wrs)
  \o (IF es # <<>> THEN << <<>>, <<"ERRORS:">>, Rule("-", 70) >> \o ErrorLines(es) ELSE <<>>)
  \o << <<>>, Rule("=", 70) >>

aggregate_orchestra ==
  /\ graph = "orchestra"
  /\ step = "workers"
  /\ AllReturned
  /\ final_report' = aggregate_orchestra_results(search_results, web_results, errors)
  /\ step' = "END"
  /\ UNCHANGED <<graph, raisedBy, tasks, wstate, errors>>
  /\ UNCHANGED pvars
  /\ UNCHANGED ovars
  /\ UNCHANGED rvars
  /\ UNCHANGED mvars

\* ============================================ mcp_agent_grok_fast_with_retry
\* ---------------------------------------------------------------- RetryPolicy
\* the policy create_agent_with_retry builds by default
InitialDelay == 2

MaxDelay == 60

ExponentialBase == 2

RECURSIVE Power(_, _)
Power(b, n) == IF n <= 0 THEN 1 ELSE b * Power(b, n - 1)

get_delay(att) ==
  LET d == InitialDelay * Power(ExponentialBase, att - 1)
  IN IF d < MaxDelay THEN d ELSE MaxDelay

\* --------------------------------------------------------- _is_retryable_error
\* An exception message is a sequence of word tokens; str.lower() maps a
\* token to its lower-case form and `pattern in error_str` is the search
\* for the pattern's tokens as a contiguous run.
Lower(t) ==
  CASE t = "Connection" -> "connection"
    [] t = "Network" -> "network"
    [] t = "Rate" -> "rate"
    [] t = "Unauthorized" -> "unauthorized"
    [] t = "Not" -> "not"
    [] t = "Found" -> "found"
    [] t = "HTTP" -> "http"
    [] OTHER -> t

LowerStr(s) == [k \in 1..Len(s) |-> Lower(s[k])]

HasPattern(s, pat) ==
  \E k \in 1..(Len(s) - Len(pat) + 1) : SubSeq(s, k, k + Len(pat) - 1) = pat

retryable_patterns ==
  << <<"timeout">>, <<"connection">>, <<"network">>, <<"rate", " ", "limit">>,
     <<"429">>, <<"503">>, <<"502">>, <<"504">> >>

non_retryable_patterns ==
  << <<"authentication">>, <<"unauthorized">>, <<"401">>, <<"403">>,
     <<"invalid">>, <<"not", " ", "found">>, <<"404">> >>

\* variant: the retryable patterns are looked up first
_is_retryable_error_retryable_first(error) ==
  LET error_str == LowerStr(error)
  IN IF \E k \in 1..Len(retryable_patterns) : HasPattern(error_str, retryable_patterns[k])
     THEN TRUE
     ELSE ~\E k \in 1..Len(non_retryable_patterns) :
              HasPattern(error_str, non_retryable_patterns[k])

_is_retryable_error(error) ==
  LET error_str == LowerStr(error)
  IN IF \E k \in 1..Len(non_retryable_patterns) :
           HasPattern(error_str, non_retryable_patterns[k])
     THEN FALSE
     ELSE IF \E k \in 1..Len(retryable_patterns) :
                HasPattern(error_str, retryable_patterns[k])
          THEN TRUE
          ELSE TRUE

\* ------------------------------------------------------------ _detect_outcome
\* Python's None as a value of the graph's inputs and results
NoValue == [kind |-> "None"]

\* what graph.ainvoke may return: a mapping with or without the keys
\* "error" (truthy) and "completed" (absent, True or False), or another value
GraphResults ==
  {[kind |-> "dict", error |-> e, completed |-> c] :
      e \in BOOLEAN, c \in {"absent", "True", "False"}}
  \cup {[kind |-> "other"]}

\* what graph.get_state(config) may do: raise, or return a snapshot with
\* its next nodes (empty or not) and, per pending task, whether the task
\* holds interrupts
StateSnapshots ==
  {[raises |-> TRUE]}
  \cup {[raises |-> FALSE, next |-> n, tasks |-> t] :
          n \in BOOLEAN, t \in {<<>>, <<FALSE>>, <<FALSE, TRUE>>}}

\* <<outcome_type, reason>>
_detect_outcome(result, state_snapshot) ==
  IF state_snapshot.raises
  THEN <<"error", <<"Failed to detect outcome">> >>
  ELSE IF state_snapshot.next
       THEN IF \E k \in 1..Len(state_snapshot.tasks) : state_snapshot.tasks[k]
            THEN <<"interrupted", <<"Agent was interrupted">> >>
            ELSE <<"incomplete", <<"Agent stopped with pending operations">> >>
       ELSE IF result.kind = "dict" /\ result.error
            THEN <<"error", <<"Agent returned error">> >>
            ELSE IF result.kind = "dict" /\ result.completed = "False"
                 THEN <<"incomplete", <<"Task marked as incomplete">> >>
                 ELSE <<"success", <<"Task completed successfully">> >>

\* --------------------------------------------------------- execute_with_retry
\* messages of the exceptions graph.ainvoke may raise
ExceptionMessages ==
  { <<"Connection", " ", "timeout">>,
    <<"Rate", " ", "limit">>,
    <<"HTTP", " ", "401", " ", "Unauthorized">>,
    <<"Network", ":", " ", "Not", " ", "Found">>,
    <<"boom">> }

\* values a caller passes as initial_input: a mapping or a Command
InitialInputs == {[kind |-> "dict"], [kind |-> "Command"]}

\* variant: the loop admits one attempt more
LoopGuard_inclusive(att) == att <= max_attempts

\* the condition of the while loop
LoopGuard(att) == att < max_attempts

\* variant: a failed attempt is always followed by the sleep and the loop test
MayRetry_always(att) == TRUE

\* the condition under which a failed attempt is followed by another
MayRetry(att) == att < max_attempts

\* variant: every attempt submits the initial input
input_data_always_initial(att) == initial_input

input_data(att) == IF att = 1 THEN initial_input ELSE NoValue

\* variant: no outcome counts as a success
IsSuccess_never(outcome_type) == FALSE

\* the test of the first branch on the detected outcome
IsSuccess(outcome_type) == outcome_type = "success"

\* variant: no outcome counts as an interrupt
IsInterrupted_never(outcome_type) == FALSE

\* the test of the second branch
IsInterrupted(outcome_type) == outcome_type = "interrupted"

\* what the branches on the detected outcome do in attempt att; the last
\* branch is the one of the outcomes "incomplete" and "error"
handle_outcome(outcome_type, att) ==
  IF IsSuccess(outcome_type) THEN "return True"
  ELSE IF IsInterrupted(outcome_type) THEN "return False"
  ELSE IF MayRetry(att) THEN "continue"
  ELSE "return False"

HistoryEntry(att, outcome, reason) ==
  [attempt |-> att, outcome |-> outcome, reason |-> reason]

\* the loop test, and the attempt up to its await of graph.ainvoke; when
\* the test fails, the statements behind the loop
RetryAttempt ==
  /\ graph = "retry"
  /\ step = "while"
  /\ IF LoopGuard(attempt)
     THEN /\ attempt' = attempt + 1
          /\ stats' = [stats EXCEPT !.total_attempts = attempt']
          /\ ainvoke_calls' = Append(ainvoke_calls, input_data(attempt'))
          /\ step' = "ainvoke"
          /\ returned' = returned
     ELSE /\ returned' = <<FALSE, last_result, stats>>
          /\ step' = "returned"
          /\ UNCHANGED <<attempt, stats, ainvoke_calls>>
  /\ UNCHANGED <<graph, raisedBy, tasks, wstate, errors, final_report,
                 max_attempts, initial_input, last_result, delay>>
  /\ UNCHANGED pvars
  /\ UNCHANGED ovars
  /\ UNCHANGED mvars

\* graph.ainvoke returns: the rest of the try block
InvokeReturns ==
  /\ graph = "retry"
  /\ step = "ainvoke"
  /\ \E result \in GraphResults, state_snapshot \in StateSnapshots :
       LET o == _detect_outcome(result, state_snapshot)
           stats1 == [stats EXCEPT !.outcome_history =
                         Append(@, HistoryEntry(attempt, o[1], o[2]))]
           h == handle_outcome(o[1], attempt)
       IN /\ last_result' = result
          /\ IF h = "continue"
             THEN /\ stats' = [stats1 EXCEPT !.retries = @ + 1]
                  /\ delay' = get_delay(attempt)
                  /\ step' = "sleep"
                  /\ returned' = returned
             ELSE /\ stats' = stats1
                  /\ delay' = delay
                  /\ step' = "returned"
                  /\ returned' = <<h = "return True", result, stats1>>
  /\ UNCHANGED <<graph, raisedBy, tasks, wstate, errors, final_report,
                 max_attempts, initial_input, attempt, ainvoke_calls>>
  /\ UNCHANGED pvars
  /\ UNCHANGED ovars
  /\ UNCHANGED mvars

\* graph.ainvoke raises: the except block
InvokeRaises ==
  /\ graph = "retry"
  /\ step = "ainvoke"
  /\ \E e \in ExceptionMessages :
       LET stats1 == [stats EXCEPT !.outcome_history =
                         Append(@, HistoryEntry(attempt, "exception", e))]
       IN IF _is_retryable_error(e) /\ MayRetry(attempt)
          THEN /\ stats' = [stats1 EXCEPT !.retries = @ + 1]
               /\ delay' = get_delay(attempt)
               /\ step' = "sleep"
               /\ returned' = returned
          ELSE /\ stats' = stats1
               /\ delay' = delay
               /\ step' = "returned"
               /\ returned' = <<FALSE, NoValue, stats1>>
  /\ UNCHANGED <<graph, raisedBy, tasks, wstate, errors, final_report,
                 max_attempts, initial_input, attempt, last_result, ainvoke_calls>>
  /\ UNCHANGED pvars
  /\ UNCHANGED ovars
  /\ UNCHANGED mvars

\* asyncio.sleep(delay) is over: continue with the loop test
SleepDone ==
  /\ graph = "retry"
  /\ step = "sleep"
  /\ step' = "while"
  /\ UNCHANGED <<graph, raisedBy, tasks, wstate, errors, final_report>>
  /\ UNCHANGED rvars
  /\ UNCHANGED pvars
  /\ UNCHANGED ovars
  /\ UNCHANGED mvars

\* ============================================================= get_mcp_tools
\* agents/glm_vercel.py, agents/zamar/glm_cerebras.py,
\* agents/zamar/cerebras_zamar.py, agents/ui/grok_ui_orchestrator.py
McpModules == {"glm_vercel", "glm_cerebras", "cerebras_zamar", "grok_ui_orchestrator"}

\* the handler around the tool load is `except BaseException` in the glm
\* modules and `except Exception` in the other two
CatchesBaseException(m) == m \in {"glm_vercel", "glm_cerebras"}

\* the glm modules keep the flag _initialization_in_progress
HasProgressFlag(m) == m \in {"glm_vercel", "glm_cerebras"}

\* the glm modules schedule _eager_init_tools, a first caller of
\* get_mcp_tools, when they are imported under a running event loop
HasEagerInit(m) == m \in {"glm_vercel", "glm_cerebras"}

\* tool lists the server may return
ServedMcpTools == {{}, {"mcp_tool"}}

\* what _mcp_client.get_tools() may do: return a tool list, raise an
\* Exception, or raise a BaseException that is no Exception (CancelledError,
\* or a BaseExceptionGroup out of the client's task group)
LoadOutcomes ==
  {[raises |-> None, tools |-> t] : t \in ServedMcpTools}
  \cup {[raises |-> e, tools |-> {}] : e \in {"Exception", "BaseException"}}

\* the load's exception is not caught inside get_mcp_tools
Propagates(m, outcome) ==
  outcome.raises = "BaseException" /\ ~CatchesBaseException(m)

\* a caller reaches `async with _initialization_lock`
McpCall(i) ==
  /\ graph = "mcp"
  /\ callers[i].pc = "idle"
  /\ callers' = [callers EXCEPT ![i].pc = "waiting"]
  /\ UNCHANGED <<graph, step, raisedBy, tasks, wstate, errors, final_report>>
  /\ UNCHANGED <<mcp_module, _initialization_lock, _initialization_in_progress,
                 _mcp_tools, mcp_clients>>
  /\ UNCHANGED pvars
  /\ UNCHANGED ovars
  /\ UNCHANGED rvars

\* a caller acquires the lock and runs to its first await or to its return
McpEnter(i) ==
  /\ graph = "mcp"
  /\ callers[i].pc = "waiting"
  /\ _initialization_lock = 0
  /\ IF _mcp_tools # NoTools
     THEN \* the cached list, None excepted, is returned and the lock released
          /\ callers' = [callers EXCEPT ![i] = [pc |-> "returned", ret |-> _mcp_tools]]
          /\ UNCHANGED <<_initialization_lock, _initialization_in_progress, mcp_clients>>
     ELSE IF HasProgressFlag(mcp_module) /\ _initialization_in_progress
          THEN \* await asyncio.sleep(2), inside the lock
               /\ callers' = [callers EXCEPT ![i].pc = "sleeping"]
               /\ _initialization_lock' = i
               /\ UNCHANGED <<_initialization_in_progress, mcp_clients>>
          ELSE \* construct the client, await its get_tools()
               /\ _initialization_in_progress' = HasProgressFlag(mcp_module)
               /\ mcp_clients' = Append(mcp_clients, i)
               /\ _initialization_lock' = i
               /\ callers' = [callers EXCEPT ![i].pc = "loading"]
  /\ UNCHANGED <<graph, step, raisedBy, tasks, wstate, errors, final_report>>
  /\ UNCHANGED <<mcp_module, _mcp_tools>>
  /\ UNCHANGED pvars
  /\ UNCHANGED ovars
  /\ UNCHANGED rvars

\* the await of a caller inside the lock is over: the caller runs to its
\* return, or the exception of the load leaves the function; either way
\* `async with` releases the lock
McpResume(i) ==
  /\ graph = "mcp"
  /\ callers[i].pc \in {"loading", "sleeping"}
  /\ _initialization_lock' = 0
  /\ IF callers[i].pc = "sleeping"
     THEN \* return _tools or []
          /\ callers' = [callers EXCEPT ![i] =
                           [pc |-> "returned", ret |-> Tools(NamesOf(_mcp_tools))]]
          /\ UNCHANGED <<_mcp_tools, _initialization_in_progress>>
     ELSE \E outcome \in LoadOutcomes :
            IF Propagates(mcp_module, outcome)
            THEN /\ callers' = [callers EXCEPT ![i].pc = "raised"]
                 /\ UNCHANGED <<_mcp_tools, _initialization_in_progress>>
            ELSE \* raw_tools is what was loaded, nothing after a caught exception
                 /\ _mcp_tools' = Tools(outcome.tools)
                 /\ _initialization_in_progress' = FALSE
                 /\ callers' = [callers EXCEPT ![i] =
                                  [pc |-> "returned", ret |-> _mcp_tools']]
  /\ UNCHANGED <<graph, step, raisedBy, tasks, wstate, errors, final_report>>
  /\ UNCHANGED <<mcp_module, mcp_clients>>
  /\ UNCHANGED pvars
  /\ UNCHANGED ovars
  /\ UNCHANGED rvars

\* ============================================== parallel_orchestra_with_mcp_chat
\* A chat message is [type, role, content]: type "HumanMessage" or "AIMessage"
\* for message objects, "dict" for the dictionary format (a dictionary whose
\* "type" is "human" is taken like one whose "role" is "user").
HumanMessage(c) == [type |-> "HumanMessage", role |-> "user", content |-> c]

AIMessage(c) == [type |-> "AIMessage", role |-> "assistant", content |-> c]

DictMessage(r, c) == [type |-> "dict", role |-> r, content |-> c]

\* the message lists a chat run is started with
ChatInputs ==
  { <<>>,
    <<HumanMessage(<<>>)>>,
    <<HumanMessage(<<" ">>)>>,
    <<HumanMessage(<<"x">>)>>,
    <<DictMessage("user", <<"x">>)>>,
    <<DictMessage("assistant", <<"y">>)>>,
    <<HumanMessage(<<"x">>), AIMessage(<<"y">>)>> }

NoQueryError == <<"Please provide a research query in the chat input.">>

\* ------------------------------------------------ extract_query_from_messages
\* the loop over reversed(messages), then "if not user_message": None and ""
\* both become the empty string
RECURSIVE extract_query_from_messages(_)
extract_query_from_messages(msgs) ==
  IF msgs = <<>> THEN <<>>
  ELSE LET msg == msgs[Len(msgs)]
       IN IF msg.type = "HumanMessage" THEN msg.content
          ELSE IF msg.type = "dict"
               THEN IF msg.role = "user" THEN msg.content
                    ELSE extract_query_from_messages(SubSeq(msgs, 1, Len(msgs) - 1))
               ELSE msg.content

extract_query ==
  /\ graph = "chat"
  /\ step = "extract_query"
  /\ original_query' = extract_query_from_messages(messages)
  /\ topics' = <<>>
  /\ search_results' = Reduce(search_results, <<>>)
  /\ web_results' = Reduce(web_results, <<>>)
  /\ errors' = Reduce(errors, <<>>)
  /\ final_report' = <<>>
  /\ step' = "intelligent_decompose"
  /\ UNCHANGED <<graph, raisedBy, _perplexity_tools, _chrome_tools, clients, tasks, wstate>>
  /\ UNCHANGED pvars
  /\ UNCHANGED rvars
  /\ UNCHANGED mvars

\* ------------------------------------------------------ intelligent_decompose
\* the partial update the node returns
intelligent_decompose_chat(query) ==
  IF query = <<>> \/ Strip(query) = <<>>
  THEN [topics |-> <<>>, errors |-> <<NoQueryError>>]
  ELSE [topics |-> << [id |-> 1, topic |-> query \o <<" - Part 1">>, type |-> "search"],
                      [id |-> 2, topic |-> query \o <<" - Part 2">>, type |-> "search"],
                      [id |-> 3, topic |-> query \o <<" - Part 3">>, type |-> "web"] >>,
        errors |-> <<>>]

decompose_chat ==
  /\ graph = "chat"
  /\ step = "intelligent_decompose"
  /\ LET update == intelligent_decompose_chat(original_query)
     IN /\ topics' = update.topics
        /\ errors' = Reduce(errors, update.errors)
  /\ step' = "route"
  /\ UNCHANGED <<graph, raisedBy, original_query, search_results, web_results,
                 _perplexity_tools, _chrome_tools, clients, tasks, wstate, final_report>>
  /\ UNCHANGED pvars
  /\ UNCHANGED rvars
  /\ UNCHANGED mvars

\* ----------------------------------------------- route_to_specialized_agents
route_to_specialized_agents_chat(ts) ==
  [k \in 1..Len(ts) |->
     [node |-> IF ts[k].type = "search" THEN "perplexity_research_agent"
               ELSE "chrome_web_agent",
      arg |-> [id |-> ts[k].id, topic |-> ts[k].topic]]]

\* the conditional edge behind intelligent_decompose: one task per Send; with
\* no Send no node is triggered and the run ends
route_chat ==
  /\ graph = "chat"
  /\ step = "route"
  /\ tasks' = route_to_specialized_agents_chat(topics)
  /\ wstate' = [k \in 1..Len(tasks') |-> "pending"]
  /\ step' = IF tasks' = <<>> THEN "END" ELSE "workers"
  /\ UNCHANGED <<graph, raisedBy, errors, final_report>>
  /\ UNCHANGED pvars
  /\ UNCHANGED ovars
  /\ UNCHANGED rvars
  /\ UNCHANGED mvars

\* ----------------------------- perplexity_research_agent, chrome_web_agent
\* next(...) over the tool list found the tool the agent calls
HasChatAgentTool(node, tools) ==
  IF node = "perplexity_research_agent" THEN "perplexity_search" \in tools
  ELSE "navigate_page" \in tools

ChatAgentResult(node, arg, real) ==
  [topic_id |-> arg.id,
   topic |-> arg.topic,
   result |-> IF real THEN TakeChars(<<"tool output">>, 500)
              ELSE IF node = "perplexity_research_agent"
                   THEN <<"[Simulated Perplexity research for: ">> \o arg.topic \o <<"]">>
                   ELSE <<"[Simulated Chrome check for: ">> \o arg.topic \o <<"]">>,
   source |-> GetterOf(node),
   success |-> TRUE]

\* the partial update an agent returns; real: a tool produced the result;
\* e: what the getter or the tool call raised (None: nothing raised)
chat_agent_update(node, arg, real, e) ==
  [search_results |-> IF e = None /\ node = "perplexity_research_agent"
                      THEN <<ChatAgentResult(node, arg, real)>> ELSE <<>>,
   web_results |-> IF e = None /\ node = "chrome_web_agent"
                   THEN <<ChatAgentResult(node, arg, real)>> ELSE <<>>,
   errors |-> IF e = None THEN <<>> ELSE <<AgentError(node, arg, e)>>]

\* the agent runs from its start to its first await
ChatAgentStart(i) ==
  /\ graph = "chat"
  /\ step = "workers"
  /\ i \in 1..Len(tasks)
  /\ wstate[i] = "pending"
  /\ LET node == tasks[i].node
         cached == CachedTools(node)
     IN IF cached = NoTools
        THEN /\ clients' = [clients EXCEPT ![GetterOf(node)] = @ + 1]
             /\ wstate' = [wstate EXCEPT ![i] = "loading"]
             /\ UNCHANGED <<search_results, web_results, errors>>
        ELSE /\ clients' = clients
             /\ IF HasChatAgentTool(node, NamesOf(cached))
                THEN /\ wstate' = [wstate EXCEPT ![i] = "invoking"]
                     /\ UNCHANGED <<search_results, web_results, errors>>
                ELSE Merge(i, chat_agent_update(node, tasks[i].arg, FALSE, None), "succeeded")
  /\ UNCHANGED <<graph, step, raisedBy, original_query, topics,
                 _perplexity_tools, _chrome_tools, tasks, final_report>>
  /\ UNCHANGED pvars
  /\ UNCHANGED rvars
  /\ UNCHANGED mvars

\* client.get_tools() returns or raises; the agent runs on to its next await
ChatAgentLoaded(i) ==
  /\ graph = "chat"
  /\ step = "workers"
  /\ i \in 1..Len(tasks)
  /\ wstate[i] = "loading"
  /\ LET node == tasks[i].node
     IN \/ \E tools \in ServedTools(node) :
             /\ IF node = "perplexity_research_agent"
                THEN _perplexity_tools' = Tools(tools) /\ _chrome_tools' = _chrome_tools
                ELSE _chrome_tools' = Tools(tools) /\ _perplexity_tools' = _perplexity_tools
             /\ IF HasChatAgentTool(node, tools)
                THEN /\ wstate' = [wstate EXCEPT ![i] = "invoking"]
                     /\ UNCHANGED <<search_results, web_results, errors>>
                ELSE Merge(i, chat_agent_update(node, tasks[i].arg, FALSE, None), "succeeded")
        \/ \E e \in ToolFailures :
             /\ UNCHANGED <<_perplexity_tools, _chrome_tools>>
             /\ Merge(i, chat_agent_update(node, tasks[i].arg, FALSE, e), "failed")
  /\ UNCHANGED <<graph, step, raisedBy, original_query, topics, clients, tasks, final_report>>
  /\ UNCHANGED pvars
  /\ UNCHANGED rvars
  /\ UNCHANGED mvars

\* the tool call of the agent returns or raises
ChatAgentInvoked(i) ==
  /\ graph = "chat"
  /\ step = "workers"
  /\ i \in 1..Len(tasks)
  /\ wstate[i] = "invoking"
  /\ \E e \in {None} \cup ToolFailures :
       Merge(i, chat_agent_update(tasks[i].node, tasks[i].arg, TRUE, e),
             IF e = None THEN "succeeded" ELSE "failed")
  /\ UNCHANGED <<graph, step, raisedBy, original_query, topics,
                 _perplexity_tools, _chrome_tools, clients, tasks, final_report>>
  /\ UNCHANGED pvars
  /\ UNCHANGED rvars
  /\ UNCHANGED mvars

\* ------------------------------------------------------ aggregate_and_respond
chat_report(srs, wrs, es) ==
  << Rule("=", 70),
     <<"ORCHESTRA RESEARCH REPORT">>,
     Rule("=", 70),
     <<"Total search results: ">> \o StrOfNat(Len(srs)),
     <<"Total web results: ">> \o StrOfNat(Len(wrs)),
     <<"Errors: ">> \o StrOfNat(Len(es)),
     <<>>,
     <<"SEARCH RESULTS (Perplexity):">>,
     Rule("-", 70) >>
  \o TopicLines(srs)
  \o << <<>>, <<"WEB RESULTS (Chrome):">>, Rule("-", 70) >>
  \o TopicLines(wrs)
  \o (IF es # <<>> THEN << <<>>, <<"ERRORS:">>, Rule("-", 70) >> \o ErrorLines(es) ELSE <<>>)
  \o << <<>>, Rule("=", 70) >>

\* runs in the superstep after the one in which the agents ran
aggregate_and_respond ==
  /\ graph = "chat"
  /\ step = "workers"
  /\ AllReturned
  /\ final_report' = chat_report(search_results, web_results, errors)
  /\ messages' = Reduce(messages, <<AIMessage(final_report')>>)
  /\ step' = "END"
  /\ UNCHANGED <<graph, raisedBy, chrome_tools, items_to_process, results,
                 tasks, wstate, errors>>
  /\ UNCHANGED ovars
  /\ UNCHANGED rvars
  /\ UNCHANGED mvars

\* ================================================================ behaviour
Queries == {<<"x">>}

Init ==
  /\ graph \in {"processor", "orchestra", "retry", "mcp", "chat"}
  /\ step = CASE graph = "processor" -> "initialize_chrome_tools"
               [] graph = "orchestra" -> "intelligent_decompose"
               [] graph = "retry" -> "while"
               [] graph = "mcp" -> "get_mcp_tools"
               [] graph = "chat" -> "extract_query"
  /\ raisedBy = None
  /\ messages \in IF graph = "processor"
                  THEN {<<>>} \cup {<<[role |-> "user", content |-> c]>> : c \in Contents}
                  ELSE IF graph = "chat" THEN ChatInputs
                  ELSE {<<>>}
  /\ chrome_tools = NoTools
  /\ items_to_process = <<>>
  /\ results = <<>>
  /\ original_query \in IF graph = "orchestra" THEN Queries ELSE {<<>>}
  /\ topics = <<>>
  /\ search_results = <<>>
  /\ web_results = <<>>
  /\ _perplexity_tools = NoTools
  /\ _chrome_tools = NoTools
  /\ clients = [g \in {"perplexity", "chrome"} |-> 0]
  /\ tasks = <<>>
  /\ wstate = <<>>
  /\ errors = <<>>
  /\ final_report = <<>>
  /\ max_attempts \in IF graph = "retry" THEN 0..MaxAttempts ELSE {0}
  /\ initial_input \in IF graph = "retry" THEN InitialInputs ELSE {NoValue}
  /\ attempt = 0
  /\ stats = [total_attempts |-> 0, retries |-> 0, outcome_history |-> <<>>]
  /\ last_result = NoValue
  /\ delay = 0
  /\ ainvoke_calls = <<>>
  /\ returned = <<>>
  /\ mcp_module \in IF graph = "mcp" THEN McpModules ELSE {None}
  /\ _initialization_lock = 0
  /\ _initialization_in_progress = FALSE
  /\ _mcp_tools = NoTools
  /\ mcp_clients = <<>>
  /\ callers = [i \in 1..MaxCallers |-> [pc |-> "idle", ret |-> NoTools]]

Next ==
  \/ initialize_chrome_tools
  \/ extract_items
  \/ route
  \/ \E i \in 1..MaxItems : WorkerStart(i)
  \/ \E i \in 1..MaxItems : WorkerReturn(i)
  \/ aggregate
  \/ decompose
  \/ route_orchestra
  \/ \E i \in 1..MaxTopics : AgentStart(i)
  \/ \E i \in 1..MaxTopics : AgentLoaded(i)
  \/ \E i \in 1..MaxTopics : AgentInvoked(i)
  \/ aggregate_orchestra
  \/ RetryAttempt
  \/ InvokeReturns
  \/ InvokeRaises
  \/ SleepDone
  \/ \E i \in 1..MaxCallers : McpCall(i)
  \/ \E i \in 1..MaxCallers : McpEnter(i)
  \/ \E i \in 1..MaxCallers : McpResume(i)
  \/ extract_query
  \/ decompose_chat
  \/ route_chat
  \/ \E i \in 1..MaxTopics : ChatAgentStart(i)
  \/ \E i \in 1..MaxTopics : ChatAgentLoaded(i)
  \/ \E i \in 1..MaxTopics : ChatAgentInvoked(i)
  \/ aggregate_and_respond

Spec == Init /\ [][Next]_vars

\* ============================================================== properties
\* what the state says about the run
Items == IF graph = "processor" THEN items_to_process ELSE topics

AllResults == IF graph = "processor" THEN results ELSE search_results \o web_results

RouterRan == step \in {"workers", "END"}

AggregatorRan == step = "END" /\ final_report # <<>>

Returned(k) == wstate[k] \in {"succeeded", "failed"}

TaskId(t) == IF t.node = "process_single_item" THEN t.arg.item_id ELSE t.arg.id

\* the item id an entry of results / errors carries (0: the entry carries none)
ResultId(r) == IF "item_id" \in DOMAIN r THEN r.item_id ELSE r.topic_id

ErrorItemId(e) ==
  IF e # <<>> /\ e[1] \in {"Item ", "Perplexity agent ", "Chrome agent "}
  THEN IntOfStr(SubSeq(e, 2, DigitRunEnd(e, 2) - 1))
  ELSE 0

ResultsWithId(n) == {k \in 1..Len(AllResults) : ResultId(AllResults[k]) = n}

ErrorsWithId(n) == {k \in 1..Len(errors) : ErrorItemId(errors[k]) = n}

\* the FinalReport fields, read back from the rendered report of the processor
ReportNumber(line) == IntOfStr(Tail(line))

ReportTotal == ReportNumber(final_report[3])

ReportSucceeded == ReportNumber(final_report[4])

ReportFailed == ReportNumber(final_report[5])

InReport(line) == \E k \in 1..Len(final_report) : final_report[k] = line

\* C1: the final report's succeeded count plus its failed count equals its
\* total, and the two counts are the numbers of entries in results and errors.
C1_ReportTotals ==
  (graph = "processor" /\ AggregatorRan) =>
     /\ ReportSucceeded + ReportFailed = ReportTotal
     /\ ReportSucceeded = Len(results)
     /\ ReportFailed = Len(errors)

\* C2: once the Aggregator has run, len(results) + len(errors) equals the
\* number of WorkItems the Extractor produced.
C2_Completeness ==
  AggregatorRan => Len(AllResults) + Len(errors) = Len(Items)

C2_Witness ==
  /\ graph = "processor"
  /\ AggregatorRan
  /\ Len(items_to_process) = 3
  /\ Len(results) >= 1
  /\ Len(errors) >= 1

\* C3: for N extracted items and every completion order, each id of 1..N is
\* carried by exactly one entry of results and errors once its Worker has
\* returned and by none before, and no entry carries another id: the
\* additive merge loses, duplicates or splits no contribution.
C3_NoItemLoss ==
  RouterRan =>
     /\ \A n \in 1..Len(Items) :
          Cardinality(ResultsWithId(n)) + Cardinality(ErrorsWithId(n))
             = IF Returned(n) THEN 1 ELSE 0
     /\ \A k \in 1..Len(AllResults) : ResultId(AllResults[k]) \in 1..Len(Items)
     /\ \A k \in 1..Len(errors) :
          ErrorItemId(errors[k]) # 0 => ErrorItemId(errors[k]) \in 1..Len(Items)

\* all Workers have returned, in an order that is not the order of submission
C3_Witness ==
  /\ RouterRan
  /\ Len(Items) = 3
  /\ \A n \in 1..Len(Items) : Returned(n)
  /\ \E j, k \in 1..Len(AllResults) : j < k /\ ResultId(AllResults[j]) > ResultId(AllResults[k])
  /\ errors # <<>>

\* C4 as stated: the Extractor records no error and always returns at least
\* one WorkItem.
C4_NeverZeroItems ==
  (graph = "processor" /\ step = "route") =>
     /\ Len(items_to_process) >= 1
     /\ errors = <<>>

\* C4 as amended: for a non-empty message list the Extractor records no
\* error and returns at least one WorkItem, exactly the one fallback item
\* when the instruction is the empty string; for an empty message list it
\* returns no item and records the error "No messages provided".
C4_AtLeastOneItemPerInstruction ==
  (graph = "processor" /\ step = "route") =>
     IF messages = <<>>
     THEN /\ items_to_process = <<>>
          /\ errors = << <<"No messages provided">> >>
     ELSE /\ Len(items_to_process) >= 1
          /\ errors = <<>>
          /\ messages[1].content = <<>> =>
                /\ Len(items_to_process) = 1
                /\ items_to_process[1].id = 1
                /\ items_to_process[1].description = <<>>

C4_Witness ==
  /\ graph = "processor"
  /\ step = "route"
  /\ messages # <<>>
  /\ messages[1].content = <<>>
  /\ Len(items_to_process) = 1

\* C5: the lazily initialised shared tool client of the orchestra agents is
\* constructed at most once per process, also under concurrent first use.
C5_ClientConstructedOnce ==
  \A g \in {"perplexity", "chrome"} : clients[g] <= 1

\* C6: every Worker invocation yields exactly one contribution, a result or
\* an error and never both or none, and a failure inside a Worker ends
\* neither the run nor another Worker: it does not propagate.
C6_WorkerStep ==
  \A i \in 1..Len(tasks) :
     (i \in DOMAIN wstate /\ ~Returned(i) /\ wstate'[i] \in {"succeeded", "failed"}) =>
        /\ Len(AllResults') + Len(errors') = Len(AllResults) + Len(errors) + 1
        /\ wstate'[i] = "succeeded" =>
              /\ Len(AllResults') = Len(AllResults) + 1
              /\ Cardinality({k \in 1..Len(AllResults') : ResultId(AllResults'[k]) = i}) = 1
        /\ wstate'[i] = "failed" =>
              /\ Len(errors') = Len(errors) + 1
              /\ ErrorItemId(errors'[Len(errors')]) = i
        /\ step' = "workers"
        /\ raisedBy' = None
        /\ \A j \in 1..Len(tasks) : j # i => wstate'[j] = wstate[j]

C7_RouterSubmitsEachOnce ==
  /\ ~RouterRan => tasks = <<>>
  /\ RouterRan =>
        /\ Len(tasks) = Len(Items)
        /\ DOMAIN wstate = 1..Len(tasks)
        /\ graph = "processor" =>
              \A k \in 1..Len(tasks) :
                 /\ tasks[k].node = "process_single_item"
                 /\ tasks[k].arg.item_id = items_to_process[k].id
                 /\ tasks[k].arg.item_description = items_to_process[k].description
        /\ graph = "orchestra" =>
              \A k \in 1..Len(tasks) :
                 /\ tasks[k].arg = topics[k]
                 /\ tasks[k].node = IF topics[k].type = "search"
                                    THEN "perplexity_research_agent" ELSE "chrome_web_agent"
        /\ \A j, k \in 1..Len(tasks) : j # k => TaskId(tasks[j]) # TaskId(tasks[k])

C7_Witness ==
  /\ step = "workers"
  /\ Len(tasks) = 3
  /\ \A k \in 1..Len(tasks) : wstate[k] = "pending"

\* C8: when a Worker fails, every other Worker still completes and its
\* result appears in the final report; the failed item is in errors, and in
\* the report, under its own item id, and the report's failed count is the
\* number of failed Workers, one for each.
C8_FailureIsolated ==
  (graph = "processor" /\ AggregatorRan) =>
     /\ \A k \in 1..Len(tasks) :
          wstate[k] = "succeeded" =>
             InReport(<<"[">> \o Pad2(tasks[k].arg.item_id) \o <<"] ">>
                         \o tasks[k].arg.item_description)
     /\ \A k \in 1..Len(tasks) :
          wstate[k] = "failed" =>
             \E j \in 1..Len(errors) :
                /\ ErrorItemId(errors[j]) = tasks[k].arg.item_id
                /\ InReport(<<"  - ">> \o errors[j])
     /\ ReportFailed = Cardinality({k \in 1..Len(tasks) : wstate[k] = "failed"})

\* one Worker of three has failed and the report is built
C8_Witness ==
  /\ graph = "processor"
  /\ AggregatorRan
  /\ Cardinality({k \in 1..Len(tasks) : wstate[k] = "failed"}) = 1
  /\ Cardinality({k \in 1..Len(tasks) : wstate[k] = "succeeded"}) = 2

\* C9: the Aggregator never runs while a submitted Worker has not yet
\* reported: a report exists, or the run has ended, only if every submitted
\* Worker has returned; while one has not, there is no report.
C9_JoinBeforeAggregate ==
  (final_report # <<>> \/ step = "END") =>
     \A k \in 1..Len(tasks) : Returned(k)

\* the report of a fan-out of three Workers of both node kinds
C9_Witness ==
  /\ graph = "orchestra"
  /\ AggregatorRan
  /\ Len(tasks) = 3
  /\ search_results # <<>>
  /\ web_results # <<>>

\* C10: a final report is produced for every invocation whose Workers all
\* return, also when every Worker failed; it lists the succeeded and failed
\* counts and every error message.
C10_ReportAlwaysRendered ==
  step = "END" =>
     /\ final_report # <<>>
     /\ \A k \in 1..Len(errors) : InReport(<<"  - ">> \o errors[k])
     /\ graph = "processor" =>
           /\ ReportSucceeded = Len(results)
           /\ ReportFailed = Len(errors)

\* the step of the Aggregator: the one that writes final_report
AggregatorStep == final_report' # final_report

\* C11: the output is the input mapping augmented with final_report and at
\* most one response message: the Aggregator's step leaves results, errors
\* and the extracted items unchanged, and the caller's input instruction is
\* still in the mapping after it, as it was before.
C11_AggregatorFrame ==
  AggregatorStep =>
     /\ results' = results
     /\ search_results' = search_results
     /\ web_results' = web_results
     /\ errors' = errors
     /\ items_to_process' = items_to_process
     /\ topics' = topics
     /\ original_query' = original_query
     /\ Len(messages') \in {Len(messages), Len(messages) + 1}
     /\ SubSeq(messages', 1, Len(messages)) = messages

C11_OutputAugmentsInput == [][C11_AggregatorFrame]_vars

\* the instruction the Extractor reads: the content of the last message
Instruction == messages[Len(messages)].content

\* which of the Extractor's patterns match an instruction
NumberedMatched(c) == NumberedMatches(c, 1) # <<>>

CountMatched(c) == CountMatch(c) # <<>>

CommaMatched(c) ==
  LET raw == Split(c, ",")
  IN /\ Contains(c, ",")
     /\ Len(raw) >= 2
     /\ \A k \in 1..Len(raw) : StrLen(Strip(raw[k])) < PartLimit

\* C12: the patterns are tried in the order numbered list, explicit count,
\* comma split, whole-input fallback, and the first one that matches alone
\* determines the WorkItems: no later pattern contributes once an earlier
\* one has matched.
C12_FirstMatchWins ==
  (graph = "processor" /\ step = "route" /\ messages # <<>>) =>
     LET c == Instruction
         tt == TaskTypeOf(c)
     IN items_to_process =
           IF NumberedMatched(c) THEN NumberedItems(c, tt)
           ELSE IF CountMatched(c) THEN CountItems(c, tt)
           ELSE IF CommaMatched(c) THEN CommaItems(c, tt)
           ELSE FallbackItems(c, tt)

\* the moves of one WorkItem
WorkItemMoves == {<<"pending", "running">>, <<"running", "succeeded">>, <<"running", "failed">>}

\* C13: each WorkItem of the processor starts Pending and moves only
\* Pending -> Running -> Succeeded or Failed: a Succeeded or Failed item
\* never changes again, so a failed item is not run a second time, and the
\* submitted tasks are never replaced or submitted again.
C13_WorkItemStep ==
  graph = "processor" =>
     /\ wstate = <<>> => \A i \in DOMAIN wstate' : wstate'[i] = "pending"
     /\ wstate # <<>> =>
           /\ DOMAIN wstate' = DOMAIN wstate
           /\ tasks' = tasks
           /\ \A i \in DOMAIN wstate :
                 wstate'[i] # wstate[i] => <<wstate[i], wstate'[i]>> \in WorkItemMoves

C13_WorkItemLifecycle == [][C13_WorkItemStep]_vars

\* one item has failed while another is running and a third has not started
C13_Witness ==
  /\ graph = "processor"
  /\ \E i, j, k \in DOMAIN wstate :
        wstate[i] = "failed" /\ wstate[j] = "running" /\ wstate[k] = "pending"

\* the Aggregator writes a first report, with every submitted Worker
\* returned, and ends the run
C14_WriteStep ==
  AggregatorStep =>
     /\ final_report = <<>>
     /\ step = "workers"
     /\ tasks # <<>>
     /\ \A k \in 1..Len(tasks) : Returned(k)
     /\ step' = "END"

C14_WrittenAtMostOnce == [][C14_WriteStep]_vars

\* C14: the FinalReport is created exactly once per invocation: every
\* invocation that has ended has its report, the report is written by one
\* step of the Aggregator, taken when all Workers (of either node kind)
\* have returned, and it is never written again afterwards.
C14_ReportCreatedExactlyOnce ==
  /\ [](step = "END" => final_report # <<>>)
  /\ [][C14_WriteStep]_vars

\* the tool map is written only by the initialisation node, which is the
\* first node and is never entered again
C15_ToolMapStep ==
  graph = "processor" =>
     /\ chrome_tools' # chrome_tools => step = "initialize_chrome_tools"
     /\ step' = "initialize_chrome_tools" => step = "initialize_chrome_tools"
     /\ step = "initialize_chrome_tools" => step' \in {"extract_items", "raised", step}

\* C15: in the processor the shared tool map is initialised once per
\* invocation, before item extraction and before any Worker starts, every
\* Worker of the invocation receives that same map, and no Worker (no step
\* after the initialisation) modifies it.
C15_SharedToolMap ==
  /\ [](graph = "processor" =>
          /\ step = "initialize_chrome_tools" =>
                /\ chrome_tools = NoTools
                /\ items_to_process = <<>>
                /\ tasks = <<>>
                /\ wstate = <<>>
          /\ \A k \in 1..Len(tasks) : tasks[k].arg.chrome_tools = chrome_tools)
  /\ [][C15_ToolMapStep]_vars

\* a Worker is running with the initialised map of two tools
C15_Witness ==
  /\ graph = "processor"
  /\ step = "workers"
  /\ Cardinality(NamesOf(chrome_tools)) = 2
  /\ \E k \in 1..Len(tasks) :
        wstate[k] = "running" /\ tasks[k].arg.chrome_tools = chrome_tools

\* ------------------------------------------------------ execute_with_retry
outcome_history == stats.outcome_history

HasReturned == graph = "retry" /\ step = "returned"

MatchesAny(e, patterns) ==
  \E k \in 1..Len(patterns) : HasPattern(LowerStr(e), patterns[k])

\* the call ended in the attempt of history entry k with success False
EndedFalseAt(k) ==
  /\ k = Len(outcome_history)
  /\ step = "returned"
  /\ returned[1] = FALSE
  /\ returned[3] = stats
  /\ Len(ainvoke_calls) = outcome_history[k].attempt

\* the attempt of history entry k did not end the call
NotEndedAt(k) == ~(k = Len(outcome_history) /\ step = "returned")

\* C16: execute_with_retry invokes the wrapped graph at most max_attempts
\* times, and stats['total_attempts'] of the returned stats equals the
\* number of invocations made.
C16_AttemptsBounded ==
  graph = "retry" =>
     /\ Len(ainvoke_calls) <= max_attempts
     /\ step = "returned" =>
           /\ returned[3].total_attempts = Len(ainvoke_calls)
           /\ stats.total_attempts = Len(ainvoke_calls)

\* all attempts of a policy of three were used
C16_Witness ==
  /\ HasReturned
  /\ max_attempts = 3
  /\ Len(ainvoke_calls) = 3
  /\ returned[3].total_attempts = 3

\* C17: an exception whose message matches a non-retryable pattern ends
\* execute_with_retry at once with success False, in the attempt that
\* raised it and also when the message matches a retryable pattern too;
\* every other exception is followed by another attempt as long as
\* attempts remain, and ends the call with success False when none does.
C17_NonRetryableEndsAtOnce ==
  graph = "retry" =>
     /\ \A k \in 1..Len(outcome_history) :
          outcome_history[k].outcome = "exception" =>
             IF MatchesAny(outcome_history[k].reason, non_retryable_patterns)
             THEN EndedFalseAt(k) /\ returned[2] = NoValue
             ELSE IF outcome_history[k].attempt < max_attempts
                  THEN NotEndedAt(k)
                  ELSE EndedFalseAt(k) /\ returned[2] = NoValue
     /\ (step \in {"sleep", "while"} /\ attempt >= 1) => LoopGuard(attempt)

\* the first attempt of three raised an exception that matches a retryable
\* and a non-retryable pattern, and the call has returned
C17_Witness ==
  /\ HasReturned
  /\ max_attempts = 3
  /\ Len(outcome_history) = 1
  /\ outcome_history[1].outcome = "exception"
  /\ MatchesAny(outcome_history[1].reason, retryable_patterns)
  /\ MatchesAny(outcome_history[1].reason, non_retryable_patterns)

\* C18: an "interrupted" outcome is never retried: execute_with_retry
\* returns (False, result, stats) in the attempt that detects it, with the
\* result of that attempt, however many attempts remain.
C18_InterruptNotRetried ==
  graph = "retry" =>
     \A k \in 1..Len(outcome_history) :
        outcome_history[k].outcome = "interrupted" =>
           /\ EndedFalseAt(k)
           /\ returned[2] = last_result
           /\ returned[2] \in GraphResults

\* the first attempt of three was interrupted and the call has returned
C18_Witness ==
  /\ HasReturned
  /\ max_attempts = 3
  /\ Len(ainvoke_calls) = 1
  /\ outcome_history[1].outcome = "interrupted"
  /\ returned[1] = FALSE

\* C19: execute_with_retry returns success True exactly when the outcome
\* detected in its last attempt is "success"; it returns in the first
\* attempt with that outcome, with that attempt's result, and the graph is
\* not invoked again after it.
C19_SuccessIffLastOutcome ==
  graph = "retry" =>
     /\ step = "returned" =>
           (returned[1] <=>
              /\ outcome_history # <<>>
              /\ outcome_history[Len(outcome_history)].outcome = "success"
              /\ outcome_history[Len(outcome_history)].attempt = attempt)
     /\ \A k \in 1..Len(outcome_history) :
          outcome_history[k].outcome = "success" =>
             /\ k = Len(outcome_history)
             /\ step = "returned"
             /\ returned[1]
             /\ returned[2] = last_result
             /\ returned[3] = stats
             /\ Len(ainvoke_calls) = outcome_history[k].attempt

\* success in the third attempt, after two attempts that were retried
C19_Witness ==
  /\ HasReturned
  /\ returned[1]
  /\ Len(ainvoke_calls) = 3
  /\ stats.retries = 2

InstructionKept == messages # <<>> /\ messages[Len(messages)].role = "user"

CallersAt(pc) == {i \in 1..MaxCallers : callers[i].pc = pc}

\* the lock is held exactly by a caller suspended inside `async with`
LockDiscipline ==
  /\ _initialization_lock # 0 =>
        callers[_initialization_lock].pc \in {"loading", "sleeping"}
  /\ \A i \in CallersAt("loading") \cup CallersAt("sleeping") : _initialization_lock = i

\* C22: for every interleaving of concurrent get_mcp_tools callers the MCP
\* client is constructed by at most one of them, every caller returns the
\* same cached tool list, and the initialisation lock is released on every
\* path, a failed tool load included.
C22_SingleInitialisation ==
  graph = "mcp" =>
     /\ Len(mcp_clients) <= 1
     /\ \A i \in 1..MaxCallers : callers[i].pc \in {"idle", "waiting", "loading", "returned"}
     /\ \A i \in CallersAt("returned") :
          callers[i].ret # NoTools /\ callers[i].ret = _mcp_tools
     /\ LockDiscipline

\* the part of C22 that holds in all four modules: the lock is held only by
\* a caller inside the block, and every caller that returns gets the cache
C22_LockReleased ==
  graph = "mcp" =>
     /\ LockDiscipline
     /\ \A i \in CallersAt("returned") : callers[i].ret = _mcp_tools

\* C22 in the modules whose handler is `except BaseException`
C22_SingleInitialisationGlm ==
  (graph = "mcp" /\ CatchesBaseException(mcp_module)) =>
     /\ Len(mcp_clients) <= 1
     /\ \A i \in CallersAt("returned") : callers[i].ret = _mcp_tools

\* a caller takes the lock and leaves the wait for it
EntersWithEmptyCache(i) ==
  /\ graph = "mcp"
  /\ HasEagerInit(mcp_module)
  /\ callers[i].pc = "waiting"
  /\ callers'[i].pc # "waiting"
  /\ _mcp_tools = Tools({})

\* C23: when an earlier initialisation (the eager one) has loaded no tools,
\* the next call of get_mcp_tools attempts the initialisation again: it
\* constructs a client and loads, instead of returning the cached empty
\* list.
C23_RetryStep ==
  \A i \in 1..MaxCallers :
     EntersWithEmptyCache(i) =>
        /\ callers'[i].pc = "loading"
        /\ mcp_clients' = Append(mcp_clients, i)

C23_EmptyLoadRetried == [][C23_RetryStep]_vars

\* the step from the loop test to the statements behind the loop
PostLoopStep == graph = "retry" /\ step = "while" /\ step' = "returned"

C24_PostLoopStepAmended ==
  /\ PostLoopStep =>
        /\ max_attempts <= 0
        /\ attempt = 0
        /\ ainvoke_calls = <<>>
        /\ returned' = <<FALSE, NoValue, stats>>
        /\ stats.total_attempts = 0
        /\ stats.outcome_history = <<>>
  /\ (graph = "retry" /\ step # "returned" /\ step' = "returned" /\ max_attempts >= 1) =>
        /\ step = "ainvoke"
        /\ Len(stats'.outcome_history) = attempt
        /\ stats'.outcome_history[attempt].attempt = attempt

NoUserQuery ==
  /\ graph = "chat"
  /\ step # "extract_query"
  /\ Strip(original_query) = <<>>

\* the last message is the response, and its content has the line of the error
RespondedWith(error) ==
  /\ messages # <<>>
  /\ LET msg == messages[Len(messages)]
     IN /\ msg.type = "AIMessage"
        /\ \E k \in 1..Len(msg.content) : msg.content[k] = <<"  - ">> \o error

\* intelligent_decompose has recorded the error of the missing query
NoQueryErrorRecorded ==
  /\ NoUserQuery
  /\ \E k \in 1..Len(errors) : errors[k] = NoQueryError

\* C25: a chat run that received no user query and has ended has executed
\* aggregate_and_respond, and its last message is a response whose content
\* contains 'Please provide a research query in the chat input.'
C25_NoQueryErrorReachesUser ==
  (NoUserQuery /\ step = "END") =>
    /\ final_report # <<>>
    /\ RespondedWith(NoQueryError)

\* the error is recorded in every run without a query (this part holds) ...
C25_ErrorRecorded ==
  (NoUserQuery /\ step \in {"route", "workers", "END"}) => NoQueryErrorRecorded

\* ... and a run with a query ends with a response (this part holds)
C25_QueryAnswered ==
  (graph = "chat" /\ step = "END" /\ ~NoUserQuery) =>
    /\ messages # <<>>
    /\ messages[Len(messages)] = AIMessage(final_report)

\* a run without a query has ended, the error on record
C25_EndedWithoutQuery == NoQueryErrorRecorded /\ step = "END"

====
